---- MODULE Spec2Model ----
(***************************************************************************)
(* The embedding cache of the prompt search engine: the server's           *)
(* getVector (src/index.js) behind GET /api/search and POST /api/prompts,  *)
(* and the benchmark scripts' getVectorWithCache (src/unnamed/part_000,    *)
(* src/keyword-search-benchmark-test.js), all working on the same          *)
(* search_cache table.  Every await of the code is one step of a request,  *)
(* so requests interleave at exactly the code's suspension points.         *)
(*                                                                         *)
(* A text is a sequence of one-character strings, so that trim() and       *)
(* toLowerCase() are computed.  An embedding is abstracted to the text the *)
(* provider was given and the length of the vector it returned.            *)
(*                                                                         *)
(* Specifications: Spec (the requests), SpecLossy (a call may never be     *)
(* answered), SpecStore (search_cache holds a row written by someone       *)
(* else), SpecRank (the benchmark's local ranking on its own inputs),      *)
(* SpecAlpha (the search handler's alpha weight on its own inputs) and     *)
(* SpecReindex (the re-indexing job on a table of ingested prompts).       *)
(***************************************************************************)
EXTENDS Integers, Sequences, FiniteSets, TLC

\* How many requests arrive in a behaviour (they may all be in flight at once).
MaxReqs == 2

\* outputDimensionality of getVector, the vector length the schema expects.
D == 768

\* The length gemini-embedding-001 returns when outputDimensionality is not
\* given (the re-indexing script forces 768 "to fit your existing DB schema").
DefaultDimGemini001 == 3072

\* The query and prompt texts the server's requests are made with: empty,
\* whitespace only (its key is that of the empty text), a normalized text, and
\* a text that differs from it only in case and surrounding whitespace.
Texts ==
    { <<>>, <<" ">>, <<"a">>, <<" ", "A">> }

\* The texts the benchmark scripts call getVectorWithCache with: "warmup",
\* all lower case, and the entries of TEST_QUERIES / KEYWORD_TEST_CASES, which
\* start with a capital and have no surrounding whitespace.
TEST_QUERIES ==
    { <<"a">>, <<"A">> }

Reqs == 1..MaxReqs

VARIABLES
    search_cache,   \* table search_cache: a set of rows [id, query_text, embedding]
    prompts,        \* table prompts: a sequence of rows [id, content, embedding]
    req,            \* the requests: each one's locals, position and outcome
    lastUpsert,     \* history: per cache id, the embedding of the last upsert that landed
    searchOnly,     \* history: search_cache as the cached resolves alone produce it
    landed,         \* history: normalized texts a cached resolve has upserted
    allPrompts,     \* runTest: the rows of prompts as the store returned them
    embedData,      \* runTest: the query vector, embedData.embedding
    serverResults,  \* runTest: the local ranking of allPrompts
    alphaQuery,     \* the search handler: req.query.alpha
    alpha_weight,   \* the search handler: the alpha_weight handed to the rpc
    purePc,         \* which of these computations has run
    fetchedPrompts, \* reindexPrompts: the rows [id, content] the select returned
    rowIndex,       \* reindexPrompts: the loop's i, counted from 1
    newEmbedding,   \* reindexPrompts: the vector of the row being processed
    reindexPc,      \* reindexPrompts: where the job is
    attempted,      \* history: the ids the loop body was entered for, in order
    failedIds,      \* history: the ids whose pass ended in the catch block
    promptsBefore   \* history: table prompts as the job found it

\* The variables of the request handling, and those of the computations that
\* are checked on their own inputs (the local ranking, the alpha weight).
reqVars == <<search_cache, prompts, req, lastUpsert, searchOnly, landed>>
pureVars == <<allPrompts, embedData, serverResults, alphaQuery, alpha_weight, purePc>>
jobVars == <<fetchedPrompts, rowIndex, newEmbedding, reindexPc, attempted,
             failedIds, promptsBefore>>
vars == <<reqVars, pureVars, jobVars>>

----------------------------------------------------------------------------
(* String.prototype.trim and toLowerCase, on sequences of characters.      *)

isWhitespace(c) == c = " "

RECURSIVE trimStart(_)
trimStart(s) ==
    IF s # <<>> /\ isWhitespace(Head(s)) THEN trimStart(Tail(s)) ELSE s

RECURSIVE trimEnd(_)
trimEnd(s) ==
    IF s # <<>> /\ isWhitespace(s[Len(s)])
    THEN trimEnd(SubSeq(s, 1, Len(s) - 1))
    ELSE s

trim(s) == trimEnd(trimStart(s))

lowerChar(c) ==
    CASE c = "A" -> "a"
      [] c = "B" -> "b"
      [] OTHER -> c

toLowerCase(s) == [i \in 1..Len(s) |-> lowerChar(s[i])]

charCode(c) ==
    CASE c = " " -> 1
      [] c = "a" -> 2
      [] c = "b" -> 3
      [] c = "A" -> 4
      [] OTHER -> 5

\* crypto.createHash('md5').update(s).digest('hex'): a deterministic digest of
\* the characters of s, idealised as collision free on the texts of the model
\* (a positional code of the characters, led by 1 so that the length counts).
RECURSIVE md5From(_, _)
md5From(h, s) ==
    IF s = <<>> THEN h ELSE md5From(h * 6 + charCode(Head(s)), Tail(s))

md5(s) == md5From(1, s)

----------------------------------------------------------------------------
(* The embedding provider: the vector for a text, of the length asked for, *)
(* or of the model's own length when none is asked for.  A vector is the  *)
(* text it encodes, its length, and how the value is held: "array" for a   *)
(* native array, "json" for a string JSON.parse reads as an array, "text"  *)
(* for any other string.                                                   *)

NoVec == [src |-> <<>>, dim |-> 0, enc |-> "array"]

defaultDim(script) ==
    IF script = "kbench" THEN DefaultDimGemini001 ELSE D

\* result.embedding.values is an array.
embedContent(text, dim) == [src |-> text, dim |-> dim, enc |-> "array"]

----------------------------------------------------------------------------
(* getVector and getVectorWithCache: what each computes from its text.     *)

CachedKinds == {"search", "bench", "kbench"}
BenchKinds == {"bench", "kbench"}

\* const cleanText = text.trim().toLowerCase()
cleanText(text) == toLowerCase(trim(text))

\* const hash = crypto.createHash('md5').update(cleanText).digest('hex')
hashOf(text) == md5(cleanText(text))

\* The text handed to the provider: getVector embeds cleanText,
\* getVectorWithCache embeds the text as given.
embedInput(kind, text) ==
    IF kind \in BenchKinds THEN text ELSE cleanText(text)

\* The vector length asked of the provider: getVector forces 768,
\* getVectorWithCache leaves it to the model.
embedDim(kind) ==
    IF kind \in BenchKinds THEN defaultDim(kind) ELSE D

\* The query_text written with the row: getVector writes cleanText,
\* getVectorWithCache writes the text as given.
rowText(kind, text) ==
    IF kind \in BenchKinds THEN text ELSE cleanText(text)

\* What a hit hands back.  getVector: return cached.embedding, whatever it
\* is.  getVectorWithCache: typeof cached.embedding === 'string' ?
\* JSON.parse(cached.embedding) : cached.embedding -- JSON.parse throws a
\* SyntaxError on a string that is not JSON.
hitThrows(kind, embedding) ==
    kind \in BenchKinds /\ embedding.enc = "text"

hitVector(kind, embedding) ==
    IF kind \in BenchKinds /\ embedding.enc = "json"
    THEN [embedding EXCEPT !.enc = "array"]
    ELSE embedding

\* useCache: the search handler passes true, the ingest handler false;
\* getVectorWithCache always uses the cache.
\* (useCacheAlways: the ingest handler passes true as well.)
useCacheAlways(kind) == TRUE
useCache(kind) == kind \in CachedKinds

\* text.trim() in getVector: the ingest handler hands over req.body.text
\* unchecked, and .trim() of undefined throws a TypeError.
trimThrows(hasText) == ~hasText

\* content: text -- the ingest handler stores the text as it was given.
\* (promptContentClean: the cleaned text is stored instead.)
promptContentClean(text) == cleanText(text)
promptContent(text) == text

\* if (!q): a missing or empty q is falsy, any other string is truthy.
qIsFalsy(hasQ, q) == ~hasQ \/ q = <<>>

----------------------------------------------------------------------------
(* The store.                                                              *)

\* .from('search_cache').select('embedding').eq('id', hash)
rowsWithId(rows, id) == {r \in rows : r.id = id}

\* .single(): the row when exactly one matches, otherwise data is null.
singleOk(rows) == Cardinality(rows) = 1

\* .from('prompts').select('content').eq('id', id).single() of the execute
\* handler: the content of the one row with that id; "not-found" stands for
\* the 404 of if (error || !prompt).
contentById(rows, id) ==
    LET found == { i \in 1..Len(rows) : rows[i].id = id }
    IN IF Cardinality(found) = 1
       THEN [found |-> TRUE, content |-> rows[CHOOSE i \in found : TRUE].content]
       ELSE [found |-> FALSE, content |-> <<>>]

\* .upsert(row): insert, or replace the row with the same primary key.
\* (upsertKeepFirst: the conflicting row is kept instead, ON CONFLICT DO NOTHING.)
upsertKeepFirst(rows, row) ==
    IF rowsWithId(rows, row.id) = {} THEN rows \cup {row} ELSE rows
upsert(rows, row) == {r \in rows : r.id # row.id} \cup {row}

\* The history of last writes, as a function on the ids written so far.
noteUpsert(last, id, vec) ==
    [k \in DOMAIN last \cup {id} |-> IF k = id THEN vec ELSE last[k]]

----------------------------------------------------------------------------
(* Requests.                                                               *)

Idle ==
    [ kind |-> "none", pc |-> "idle", hasQ |-> FALSE, text |-> <<>>,
      hash |-> 0, embedding |-> NoVec, status |-> 0,
      \* the body of the response: "results", "created", or the error's cause
      body |-> "none",
      \* the call the request awaits will never be answered
      lost |-> FALSE,
      \* history of the request
      lookups |-> 0, calls |-> 0, writes |-> 0, responses |-> 0,
      hit |-> FALSE, stored |-> {}, wasLanded |-> FALSE,
      lookupErr |-> FALSE, provErr |-> FALSE, upsertErr |-> FALSE,
      rpcErr |-> FALSE, parseErr |-> FALSE,
      \* data[0].id of the row the ingest handler inserted (0: none)
      rowId |-> 0 ]

arrivedCount == Cardinality({p \in Reqs : req[p].pc # "idle"})

\* Requests arrive in the order of their numbers.
canArrive(p) == req[p].pc = "idle" /\ p = arrivedCount + 1

\* Where a request goes once its handler has called getVector /
\* getVectorWithCache: the cache check when the cache is used, else the provider.
afterEntry(kind) == IF useCache(kind) THEN "lookup" ELSE "embed"

\* if (cached) return cached.embedding -- otherwise go on to the provider.
\* (afterLookupRefresh: the provider is called and the row rewritten on a hit too.)
afterLookupRefresh(kind, found) == "embed"
afterLookup(kind, found) ==
    IF found THEN (IF kind = "search" THEN "rpc" ELSE "done") ELSE "embed"

\* After the provider call: a rejection leaves getVector and the handler's
\* try block; a result goes on to the cache store, or back to the caller.
\* (afterEmbedSwallow: a rejection is swallowed and the request goes on.)
afterEmbedSwallow(kind, ok) ==
    IF useCache(kind) THEN "upsert" ELSE "insert"
afterEmbed(kind, ok) ==
    IF ~ok THEN "done"
    ELSE IF useCache(kind) THEN "upsert" ELSE "insert"

\* await supabase.from('search_cache').upsert(...): the client resolves with
\* { error } instead of rejecting, and getVector does not look at the result,
\* so a refused write throws nothing.
\* (upsertThrowsOnError: if (error) throw error, as the handlers do.)
upsertThrowsOnError(ok) == ~ok
upsertThrows(ok) == FALSE

\* return embedding: back in the search handler the ranking call is next;
\* getVectorWithCache's caller has its result.
afterUpsert(kind) == IF kind = "search" THEN "rpc" ELSE "done"

\* The status a request has after a step that takes it to `next': none (0)
\* while it goes on, 500 from the catch block (for a benchmark script, the
\* rejection of its promise), else the handler's success status.
statusAt(next, failed, success) ==
    IF next # "done" THEN 0 ELSE IF failed THEN 500 ELSE success

\* The body sent with that status: the handler's own on success, { error:
\* err.message } of what was thrown from the catch block.
bodyAt(next, failed, success, cause) ==
    IF next # "done" THEN "none" ELSE IF failed THEN cause ELSE success

\* res.status(...).json(...) is called once on each way out of a handler.
sentAt(next) == IF next = "done" THEN 1 ELSE 0

\* if (!q) return res.status(400).json(...): the handler returns there.
\* (afterRejectFallsThrough: the return is missing and the handler goes on.)
afterRejectFallsThrough(kind) == afterEntry(kind)
afterReject(kind) == "done"

\* No number yet (alpha_weight before the handler computes it).
NoNumber == [nan |-> TRUE, num |-> 0, den |-> 1]

\* The request handling at the start: empty tables, no request yet.
ReqInit ==
    /\ search_cache = {}
    /\ prompts = <<>>
    /\ req = [p \in Reqs |-> Idle]
    /\ lastUpsert = <<>>
    /\ searchOnly = {}
    /\ landed = {}

\* The computations checked on their own inputs are not running.
PureOff ==
    /\ allPrompts = <<>>
    /\ embedData = <<>>
    /\ serverResults = <<>>
    /\ alphaQuery = [given |-> FALSE, text |-> <<>>]
    /\ alpha_weight = NoNumber
    /\ purePc = "off"

\* The re-indexing job is not running.
JobOff ==
    /\ fetchedPrompts = <<>>
    /\ rowIndex = 0
    /\ newEmbedding = NoVec
    /\ reindexPc = "off"
    /\ attempted = <<>>
    /\ failedIds = {}
    /\ promptsBefore = <<>>

Init ==
    /\ ReqInit
    /\ PureOff
    /\ JobOff

----------------------------------------------------------------------------
(* The specification's own words, used by the history variables and the    *)
(* properties: normalize (4.1) and addressOf (4.2).                        *)

normalize(t) == toLowerCase(trim(t))
addressOf(n) == md5(n)

----------------------------------------------------------------------------
(* GET /api/search: const { q } = req.query; if (!q) return 400; then      *)
(* getVector(q, true).                                                     *)
SearchStart(p, hasQ, q) ==
    /\ canArrive(p)
    /\ req' = [req EXCEPT ![p] =
                 IF qIsFalsy(hasQ, q)
                 THEN [Idle EXCEPT !.kind = "search", !.hasQ = hasQ, !.text = q,
                                   !.pc = afterReject("search"),
                                   !.status = 400, !.body = "q-required",
                                   !.responses = 1]
                 ELSE [Idle EXCEPT !.kind = "search", !.hasQ = hasQ, !.text = q,
                                   !.pc = afterEntry("search"),
                                   !.hash = hashOf(q)]]
    /\ UNCHANGED <<search_cache, prompts, lastUpsert, searchOnly, landed, pureVars, jobVars>>

(* POST /api/prompts: getVector(text, false).                              *)
IngestStart(p, hasText, text) ==
    LET thrown == trimThrows(hasText)
        next == IF thrown THEN "done" ELSE afterEntry("ingest")
    IN
    /\ canArrive(p)
    /\ req' = [req EXCEPT ![p] =
                 [Idle EXCEPT !.kind = "ingest", !.hasQ = hasText, !.text = text,
                              !.pc = next,
                              !.hash = IF thrown THEN 0 ELSE hashOf(text),
                              !.status = statusAt(next, thrown, 201),
                              !.body = bodyAt(next, thrown, "created", "type"),
                              !.responses = sentAt(next)]]
    /\ UNCHANGED <<search_cache, prompts, lastUpsert, searchOnly, landed, pureVars, jobVars>>

(* A benchmark script's call getVectorWithCache(text): "bench" is runTest  *)
(* of part_000, "kbench" is runBenchmark of keyword-search-benchmark-test. *)
BenchStart(p, kind, text) ==
    /\ canArrive(p)
    /\ kind \in BenchKinds
    /\ req' = [req EXCEPT ![p] =
                 [Idle EXCEPT !.kind = kind, !.hasQ = TRUE, !.text = text,
                              !.pc = afterEntry(kind),
                              !.hash = hashOf(text)]]
    /\ UNCHANGED <<search_cache, prompts, lastUpsert, searchOnly, landed, pureVars, jobVars>>

(* The cache check: select('embedding').eq('id', hash).single(); only data *)
(* is read from the reply, so a failed query and no row both give null.    *)
CacheLookup(p) ==
    LET r == req[p]
        rows == rowsWithId(search_cache, r.hash)
        seen == [r EXCEPT !.lookups = @ + 1,
                          !.stored = {x.embedding :
                              x \in rowsWithId(search_cache,
                                               addressOf(normalize(r.text)))},
                          !.wasLanded = normalize(r.text) \in landed]
    IN
    /\ r.pc = "lookup" /\ ~r.lost
    /\ \/ /\ singleOk(rows)
          /\ LET row == CHOOSE x \in rows : TRUE
                 thrown == hitThrows(r.kind, row.embedding)
                 next == IF thrown THEN "done" ELSE afterLookup(r.kind, TRUE)
             IN req' = [req EXCEPT ![p] =
                          [seen EXCEPT !.hit = TRUE,
                                       !.parseErr = thrown,
                                       !.embedding =
                                           IF thrown THEN @
                                           ELSE hitVector(r.kind, row.embedding),
                                       !.pc = next,
                                       !.status = statusAt(next, thrown, 200),
                                       !.body = bodyAt(next, thrown, "vector", "parse"),
                                       !.responses = @ + sentAt(next)]]
       \/ /\ ~singleOk(rows)
          /\ req' = [req EXCEPT ![p] =
                       [seen EXCEPT !.pc = afterLookup(r.kind, FALSE)]]
       \/ req' = [req EXCEPT ![p] =
                    [seen EXCEPT !.lookupErr = TRUE,
                                 !.pc = afterLookup(r.kind, FALSE)]]
    /\ UNCHANGED <<search_cache, prompts, lastUpsert, searchOnly, landed, pureVars, jobVars>>

(* The provider call: model.embedContent(...); it resolves with the vector *)
(* or rejects.                                                             *)
Embed(p) ==
    LET r == req[p]
        called == [r EXCEPT !.calls = @ + 1]
    IN
    /\ r.pc = "embed" /\ ~r.lost
    /\ \/ LET next == afterEmbed(r.kind, TRUE)
          IN req' = [req EXCEPT ![p] =
                       [called EXCEPT
                          !.embedding = embedContent(embedInput(r.kind, r.text),
                                                     embedDim(r.kind)),
                          !.pc = next]]
       \/ LET next == afterEmbed(r.kind, FALSE)
          IN req' = [req EXCEPT ![p] =
                       [called EXCEPT !.provErr = TRUE,
                                      !.pc = next,
                                      !.status = statusAt(next, TRUE, 200),
                                      !.body = bodyAt(next, TRUE, "none", "provider"),
                                      !.responses = @ + sentAt(next)]]
    /\ UNCHANGED <<search_cache, prompts, lastUpsert, searchOnly, landed, pureVars, jobVars>>

(* The cache store: upsert({ id: hash, query_text, embedding }); the write *)
(* lands or the store refuses it.                                          *)
CacheUpsert(p) ==
    LET r == req[p]
        row == [id |-> r.hash,
                query_text |-> rowText(r.kind, r.text),
                embedding |-> r.embedding]
    IN
    /\ r.pc = "upsert" /\ ~r.lost
    /\ \/ LET next == afterUpsert(r.kind)
          IN /\ search_cache' = upsert(search_cache, row)
             /\ lastUpsert' = noteUpsert(lastUpsert, row.id, row.embedding)
             /\ searchOnly' = IF r.kind = "ingest" THEN searchOnly
                              ELSE upsert(searchOnly, row)
             /\ landed' = landed \cup {normalize(r.text)}
             /\ req' = [req EXCEPT ![p] =
                          [r EXCEPT !.writes = @ + 1,
                                    !.pc = next,
                                    !.status = statusAt(next, FALSE, 200),
                                    !.body = bodyAt(next, FALSE, "vector", "none"),
                                    !.responses = @ + sentAt(next)]]
       \/ LET next == IF upsertThrows(FALSE) THEN "done" ELSE afterUpsert(r.kind)
          IN /\ req' = [req EXCEPT ![p] =
                          [r EXCEPT !.upsertErr = TRUE,
                                    !.pc = next,
                                    !.status =
                                        statusAt(next, upsertThrows(FALSE), 200),
                                    !.body = bodyAt(next, upsertThrows(FALSE),
                                                    "vector", "upsert"),
                                    !.responses = @ + sentAt(next)]]
             /\ UNCHANGED <<search_cache, lastUpsert, searchOnly, landed>>
    /\ UNCHANGED <<prompts, pureVars, jobVars>>

(* The ranking call of the search handler: supabase.rpc(                   *)
(* 'hybrid_search_prompts', ...); if (error) throw error; else 200.        *)
Rpc(p) ==
    LET r == req[p] IN
    /\ r.pc = "rpc" /\ ~r.lost
    /\ \/ req' = [req EXCEPT ![p] =
                    [r EXCEPT !.pc = "done", !.status = 200, !.body = "results",
                              !.responses = @ + 1]]
       \/ req' = [req EXCEPT ![p] =
                    [r EXCEPT !.pc = "done", !.status = 500, !.body = "rpc",
                              !.responses = @ + 1, !.rpcErr = TRUE]]
    /\ UNCHANGED <<search_cache, prompts, lastUpsert, searchOnly, landed, pureVars, jobVars>>

(* The insert of the ingest handler: from('prompts').insert([...]).select();*)
(* if (error) throw error; else 201 with the stored row.                   *)
Insert(p) ==
    LET r == req[p] IN
    /\ r.pc = "insert" /\ ~r.lost
    /\ \/ /\ prompts' = Append(prompts, [id |-> Len(prompts) + 1,
                                         content |-> promptContent(r.text),
                                         embedding |-> r.embedding])
          /\ req' = [req EXCEPT ![p] =
                       [r EXCEPT !.pc = "done", !.status = 201, !.body = "created",
                                 !.rowId = Len(prompts) + 1,
                                 !.responses = @ + 1]]
       \/ /\ req' = [req EXCEPT ![p] =
                       [r EXCEPT !.pc = "done", !.status = 500, !.body = "insert",
                                 !.responses = @ + 1]]
          /\ UNCHANGED prompts
    /\ UNCHANGED <<search_cache, lastUpsert, searchOnly, landed, pureVars, jobVars>>

Next ==
    \E p \in Reqs :
        \/ \E hasQ \in BOOLEAN, q \in Texts :
               (hasQ \/ q = <<>>) /\ SearchStart(p, hasQ, q)
        \/ \E hasText \in BOOLEAN, text \in Texts :
               (hasText \/ text = <<>>) /\ IngestStart(p, hasText, text)
        \/ \E kind \in BenchKinds, text \in TEST_QUERIES :
               BenchStart(p, kind, text)
        \/ CacheLookup(p)
        \/ Embed(p)
        \/ CacheUpsert(p)
        \/ Rpc(p)
        \/ Insert(p)

Spec == Init /\ [][Next]_vars

----------------------------------------------------------------------------
(* Calls that are never answered.  Every await of getVector and of the     *)
(* handlers is a bare await of the client's promise: no timer, AbortSignal *)
(* or Promise.race stands beside it, so a request whose call is never      *)
(* answered has no step left.                                              *)

awaiting(p) == req[p].pc \in {"lookup", "embed", "upsert", "rpc", "insert"}

\* The provider or the store never answers the call request p awaits.
CallLost(p) ==
    /\ awaiting(p)
    /\ ~req[p].lost
    /\ req' = [req EXCEPT ![p].lost = TRUE]
    /\ UNCHANGED <<search_cache, prompts, lastUpsert, searchOnly, landed, pureVars, jobVars>>

\* What can happen next to request p: the answer to the call it awaits.
Step(p) ==
    \/ CacheLookup(p)
    \/ Embed(p)
    \/ CacheUpsert(p)
    \/ Rpc(p)
    \/ Insert(p)

NextLossy ==
    \/ Next
    \/ \E p \in Reqs : CallLost(p)

\* The requests when calls may go unanswered.
SpecLossy == Init /\ [][NextLossy]_vars

----------------------------------------------------------------------------
(* The same requests against a search_cache that already holds a row       *)
(* written by someone else (the table is shared with the benchmark scripts *)
(* and open to the service key): the row of "a", its embedding held as a   *)
(* string.                                                                 *)

ForeignEncodings == {"json", "text"}

foreignRow(enc) ==
    [id |-> hashOf(<<"a">>), query_text |-> <<"a">>,
     embedding |-> [src |-> <<"a">>, dim |-> D, enc |-> enc]]

StoreInit ==
    /\ search_cache \in { {foreignRow(enc)} : enc \in ForeignEncodings }
    /\ prompts = <<>>
    /\ req = [p \in Reqs |-> Idle]
    /\ lastUpsert = <<>>
    /\ searchOnly = {}
    /\ landed = {}
    /\ PureOff
    /\ JobOff

SpecStore == StoreInit /\ [][Next]_vars

----------------------------------------------------------------------------
(* The local ranking of runTest (part_000, "SERVER-SIDE ARCHITECTURE").    *)
(* Numbers are exact fractions <<numerator, denominator>>, denominator     *)
(* positive, and the vectors of the model have whole-number lengths, so    *)
(* Math.sqrt and the divisions are exact; the rounding of JavaScript's     *)
(* doubles is not modelled.                                                *)

\* How many rows of prompts the store returns at most.
MaxCands == 6

\* .slice(0, 5)
SLICE_END == 5

RECURSIVE gcd(_, _)
gcd(a, b) == IF b = 0 THEN a ELSE gcd(b, a % b)

\* Fractions are kept in lowest terms (numerators are never negative here).
Frac(n, d) == LET g == gcd(n, d) IN <<n \div g, d \div g>>
fracAdd(a, b) == Frac(a[1] * b[2] + b[1] * a[2], a[2] * b[2])
fracMul(a, b) == Frac(a[1] * b[1], a[2] * b[2])
fracLess(a, b) == a[1] * b[2] < b[1] * a[2]
fracEq(a, b) == a[1] * b[2] = b[1] * a[2]

\* vecA.reduce((sum, a, i) => sum + a * (vecB[i] || 0), 0)
RECURSIVE dotFrom(_, _, _)
dotFrom(vecA, vecB, i) ==
    IF i > Len(vecA) THEN 0
    ELSE vecA[i] * (IF i <= Len(vecB) THEN vecB[i] ELSE 0)
             + dotFrom(vecA, vecB, i + 1)

\* vec.reduce((sum, a) => sum + a * a, 0)
RECURSIVE sumSquares(_)
sumSquares(vec) ==
    IF vec = <<>> THEN 0 ELSE Head(vec) * Head(vec) + sumSquares(Tail(vec))

\* Math.sqrt, on the squares of whole numbers.
sqrt(n) == CHOOSE r \in 0..n : r * r = n

\* function cosineSimilarity(vecA, vecB)
cosineSimilarity(vecA, vecB) ==
    LET dotProduct == dotFrom(vecA, vecB, 1)
        magA == sqrt(sumSquares(vecA))
        magB == sqrt(sumSquares(vecB))
    IN IF magA = 0 \/ magB = 0 THEN Frac(0, 1)
       ELSE Frac(dotProduct, magA * magB)

\* const meta = (p.votes + p.quality_score) / 200.0
metaOf(p) == Frac(p.votes + p.quality_score, 200)

\* const rank = (sem * 0.7) + (meta * 0.3)
\* (rankWeightsSwapped: the two weights the other way round.)
rankWeightsSwapped(sem, meta) ==
    fracAdd(fracMul(sem, Frac(3, 10)), fracMul(meta, Frac(7, 10)))
rankOf(sem, meta) ==
    fracAdd(fracMul(sem, Frac(7, 10)), fracMul(meta, Frac(3, 10)))

\* allPrompts.map(p => ({ id: p.id, rank }))
scored(query, rows) ==
    [i \in 1..Len(rows) |->
        [id |-> rows[i].id,
         rank |-> rankOf(cosineSimilarity(query, rows[i].embedding),
                         metaOf(rows[i]))]]

\* .sort((a, b) => b.rank - a.rank): Array.prototype.sort is stable, and the
\* comparator puts b before a only when b.rank is the larger, so rows of equal
\* rank keep the order they came in.
RECURSIVE insertByRank(_, _)
insertByRank(sorted, x) ==
    IF sorted = <<>> THEN <<x>>
    ELSE IF fracLess(Head(sorted).rank, x.rank) THEN <<x>> \o sorted
    ELSE <<Head(sorted)>> \o insertByRank(Tail(sorted), x)

RECURSIVE sortFrom(_, _)
sortFrom(sorted, rest) ==
    IF rest = <<>> THEN sorted
    ELSE sortFrom(insertByRank(sorted, Head(rest)), Tail(rest))

sortByRankDesc(rows) == sortFrom(<<>>, rows)

\* Array.prototype.slice(0, end)
\* (sliceOneMore: the end index is taken as inclusive.)
sliceOneMore(rows, end) ==
    SubSeq(rows, 1, IF Len(rows) < end + 1 THEN Len(rows) ELSE end + 1)
slice(rows, end) ==
    SubSeq(rows, 1, IF Len(rows) < end THEN Len(rows) ELSE end)

\* const serverResults = allPrompts.map(...).sort(...).slice(0, 5)
rankLocally(query, rows) ==
    slice(sortByRankDesc(scored(query, rows)), SLICE_END)

\* The rows of prompts the ranking is tried on: what each row carries
\* (embedding, votes, quality_score) -- the two candidates of the spec's
\* Scenario A, one close to the query with full metadata, and one with a zero
\* vector.
Profiles ==
    { [embedding |-> <<1, 0>>, votes |-> 0, quality_score |-> 0],
      [embedding |-> <<0, 1>>, votes |-> 100, quality_score |-> 100],
      [embedding |-> <<3, 4>>, votes |-> 100, quality_score |-> 100],
      [embedding |-> <<0, 0>>, votes |-> 50, quality_score |-> 0] }

QueryVectors == { <<1, 0>>, <<3, 4>>, <<0, 0>> }

\* The store assigns the ids 1..n; it returns the rows in ascending or in
\* descending order of id (select without order).
withIds(profiles, ascending) ==
    [i \in 1..Len(profiles) |->
        [id |-> IF ascending THEN i ELSE Len(profiles) + 1 - i,
         embedding |-> profiles[i].embedding,
         votes |-> profiles[i].votes,
         quality_score |-> profiles[i].quality_score]]

CandidateLists ==
    UNION { { withIds(ps, asc) : ps \in [1..n -> Profiles], asc \in BOOLEAN } :
            n \in 0..MaxCands }

RankInit ==
    /\ ReqInit
    /\ allPrompts \in CandidateLists
    /\ embedData \in QueryVectors
    /\ serverResults = <<>>
    /\ alphaQuery = [given |-> FALSE, text |-> <<>>]
    /\ alpha_weight = NoNumber
    /\ purePc = "fetched"
    /\ JobOff

\* One pass of the loop body of runTest, part C: rank the fetched rows.
RankLocal ==
    /\ purePc = "fetched"
    /\ serverResults' = rankLocally(embedData, allPrompts)
    /\ purePc' = "ranked"
    /\ UNCHANGED <<reqVars, allPrompts, embedData, alphaQuery, alpha_weight, jobVars>>

RankNext == RankLocal

SpecRank == RankInit /\ [][RankNext]_vars

----------------------------------------------------------------------------
(* The alpha weight of GET /api/search: const { q, alpha = 0.5 } =         *)
(* req.query, then alpha_weight: parseFloat(alpha).  A number is           *)
(* [nan, num, den]: NaN, or the decimal fraction num / den.  Exponents and *)
(* "Infinity" are outside the characters the model feeds parseFloat.       *)

\* The longest value of ?alpha= the model sends.
MaxAlphaLen == 3

AlphaChars == { "0", "1", "5", ".", "-", "x", " " }

isDigit(c) == c \in { "0", "1", "2", "3", "4", "5", "6", "7", "8", "9" }

digitValue(c) ==
    CASE c = "0" -> 0 [] c = "1" -> 1 [] c = "2" -> 2 [] c = "3" -> 3
      [] c = "4" -> 4 [] c = "5" -> 5 [] c = "6" -> 6 [] c = "7" -> 7
      [] c = "8" -> 8 [] c = "9" -> 9

\* The digits a string starts with.
RECURSIVE leadingDigits(_)
leadingDigits(s) ==
    IF s = <<>> \/ ~isDigit(Head(s)) THEN <<>>
    ELSE <<Head(s)>> \o leadingDigits(Tail(s))

RECURSIVE decimalValue(_, _)
decimalValue(acc, digits) ==
    IF digits = <<>> THEN acc
    ELSE decimalValue(acc * 10 + digitValue(Head(digits)), Tail(digits))

RECURSIVE pow10(_)
pow10(n) == IF n = 0 THEN 1 ELSE 10 * pow10(n - 1)

dropFirst(s, n) == SubSeq(s, n + 1, Len(s))

\* parseFloat(string): leading white space is skipped, then the longest
\* prefix that is a decimal literal is read ([+-] digits [. digits]); NaN when
\* there is no digit to read.
parseFloat(text) ==
    LET s == trimStart(text)
        signed == s # <<>> /\ Head(s) \in { "+", "-" }
        negative == signed /\ Head(s) = "-"
        body == IF signed THEN Tail(s) ELSE s
        intDigits == leadingDigits(body)
        rest == dropFirst(body, Len(intDigits))
        fracDigits == IF rest # <<>> /\ Head(rest) = "."
                      THEN leadingDigits(Tail(rest)) ELSE <<>>
        magnitude == decimalValue(decimalValue(0, intDigits), fracDigits)
    IN IF intDigits = <<>> /\ fracDigits = <<>> THEN NoNumber
       ELSE [nan |-> FALSE,
             num |-> IF negative THEN 0 - magnitude ELSE magnitude,
             den |-> pow10(Len(fracDigits))]


\* alpha = 0.5 in the destructuring: the default when ?alpha is absent;
\* parseFloat then reads String(0.5).
defaultAlpha == <<"0", ".", "5">>

RECURSIVE stringsUpTo(_)
stringsUpTo(n) ==
    IF n = 0 THEN { <<>> }
    ELSE LET shorter == stringsUpTo(n - 1)
         IN shorter \cup { Append(t, c) : t \in shorter, c \in AlphaChars }

AlphaQueries ==
    { [given |-> FALSE, text |-> <<>>] }
        \cup { [given |-> TRUE, text |-> t] : t \in stringsUpTo(MaxAlphaLen) }

AlphaInit ==
    /\ ReqInit
    /\ allPrompts = <<>>
    /\ embedData = <<>>
    /\ serverResults = <<>>
    /\ alphaQuery \in AlphaQueries
    /\ alpha_weight = NoNumber
    /\ purePc = "query"
    /\ JobOff

\* The search handler computes the alpha_weight argument of the rpc.
AlphaWeight ==
    /\ purePc = "query"
    /\ alpha_weight' = parseFloat(IF alphaQuery.given THEN alphaQuery.text
                                  ELSE defaultAlpha)
    /\ purePc' = "weighted"
    /\ UNCHANGED <<reqVars, allPrompts, embedData, serverResults, alphaQuery, jobVars>>

AlphaNext == AlphaWeight

SpecAlpha == AlphaInit /\ [][AlphaNext]_vars

----------------------------------------------------------------------------
(* The re-indexing job, reindexPrompts of                                  *)
(* keyword-search-benchmark-test.js: select id and content of every        *)
(* prompt, then for each row in turn embed its content and update the      *)
(* row's embedding; a failure inside the loop body is caught and logged.   *)
(* Each await is one step; the 200 ms sleep after an update changes        *)
(* nothing and is part of the update's step.                               *)

\* How many rows the table prompts holds when the job starts.
MaxRows == 3

\* The table as the ingest handler fills it: ids 1..n, the content as given,
\* the embedding of the cleaned content.
ingestedRow(id, text) ==
    [id |-> id, content |-> promptContent(text),
     embedding |-> embedContent(cleanText(text), D)]

PromptTables ==
    UNION { { [k \in 1..n |-> ingestedRow(k, texts[k])] : texts \in [1..n -> Texts] } :
            n \in 0..MaxRows }

\* .from('prompts').select('id, content'): the rows in ascending or in
\* descending order of id (select without order).
selectIdContent(rows, ascending) ==
    [k \in 1..Len(rows) |->
        LET row == rows[IF ascending THEN k ELSE Len(rows) + 1 - k]
        IN [id |-> row.id, content |-> row.content]]

\* .from('prompts').update({ embedding: newEmbedding }).eq('id', id)
updateEmbedding(rows, id, embedding) ==
    [k \in 1..Len(rows) |->
        IF rows[k].id = id THEN [rows[k] EXCEPT !.embedding = embedding]
        ELSE rows[k]]

\* for (let i = 0; i < prompts.length; i++): the body runs while rows are left.
loopPc(index, length) == IF index <= length THEN "embed" ELSE "done"

\* The catch block is inside the loop body: after it the loop goes on with
\* the next row.
\* (afterCatchAbort: the try is around the loop, so a failure ends the job.)
afterCatchAbort(index, length) == length + 1
afterCatch(index, length) == index + 1

ReindexInit ==
    /\ search_cache = {}
    /\ prompts \in PromptTables
    /\ req = [p \in Reqs |-> Idle]
    /\ lastUpsert = <<>>
    /\ searchOnly = {}
    /\ landed = {}
    /\ PureOff
    /\ fetchedPrompts = <<>>
    /\ rowIndex = 0
    /\ newEmbedding = NoVec
    /\ reindexPc = "fetch"
    /\ attempted = <<>>
    /\ failedIds = {}
    /\ promptsBefore = prompts

\* const { data: prompts, error } = await supabase.from('prompts').select(...);
\* if (error) return.
ReindexFetch ==
    /\ reindexPc = "fetch"
    /\ \/ \E ascending \in BOOLEAN :
              /\ fetchedPrompts' = selectIdContent(prompts, ascending)
              /\ rowIndex' = 1
              /\ reindexPc' = loopPc(1, Len(prompts))
       \/ /\ reindexPc' = "done"
          /\ UNCHANGED <<fetchedPrompts, rowIndex>>
    /\ UNCHANGED <<reqVars, pureVars, newEmbedding, attempted, failedIds,
                   promptsBefore>>

\* const result = await embedModel.embedContent({ ... text: content ...,
\* outputDimensionality: 768 }): the vector, or a rejection that the catch
\* block logs.
ReindexEmbed ==
    LET row == fetchedPrompts[rowIndex] IN
    /\ reindexPc = "embed"
    /\ attempted' = Append(attempted, row.id)
    /\ \/ /\ newEmbedding' = embedContent(row.content, D)
          /\ reindexPc' = "update"
          /\ UNCHANGED <<rowIndex, failedIds>>
       \/ /\ failedIds' = failedIds \cup {row.id}
          /\ rowIndex' = afterCatch(rowIndex, Len(fetchedPrompts))
          /\ reindexPc' = loopPc(rowIndex', Len(fetchedPrompts))
          /\ UNCHANGED newEmbedding
    /\ UNCHANGED <<reqVars, pureVars, fetchedPrompts, promptsBefore>>

\* await supabase.from('prompts').update(...).eq('id', id);
\* if (updateError) throw updateError -- else the sleep, then i++.
ReindexUpdate ==
    LET row == fetchedPrompts[rowIndex] IN
    /\ reindexPc = "update"
    /\ \/ /\ prompts' = updateEmbedding(prompts, row.id, newEmbedding)
          /\ rowIndex' = rowIndex + 1
          /\ UNCHANGED failedIds
       \/ /\ failedIds' = failedIds \cup {row.id}
          /\ rowIndex' = afterCatch(rowIndex, Len(fetchedPrompts))
          /\ UNCHANGED prompts
    /\ reindexPc' = loopPc(rowIndex', Len(fetchedPrompts))
    /\ UNCHANGED <<search_cache, req, lastUpsert, searchOnly, landed, pureVars,
                   fetchedPrompts, newEmbedding, attempted, promptsBefore>>

ReindexNext == ReindexFetch \/ ReindexEmbed \/ ReindexUpdate

SpecReindex == ReindexInit /\ [][ReindexNext]_vars

----------------------------------------------------------------------------
(* Properties.                                                             *)

Cached(p) == req[p].kind \in CachedKinds
Finished(p) == req[p].pc = "done"
\* The request's call of getVector / getVectorWithCache has returned a vector.
Resolved(p) ==
    \/ req[p].kind = "search" /\ req[p].pc = "rpc"
    \/ req[p].kind = "ingest" /\ req[p].pc = "insert"
    \/ Finished(p) /\ req[p].status # 400 /\ ~req[p].provErr /\ ~req[p].parseErr

\* C1: once a cached resolve of t1 has upserted, every later cached resolve of
\* a text t2 with normalize(t2) = normalize(t1) uses the same key, returns the
\* embedding stored under that key and makes no provider call.
C1_LaterResolveIsAHit ==
    \A p \in Reqs :
        (Cached(p) /\ req[p].lookups = 1 /\ req[p].wasLanded) =>
            /\ req[p].hash = addressOf(normalize(req[p].text))
            /\ req[p].hit
            /\ req[p].embedding \in req[p].stored
            /\ req[p].calls = 0

\* C2: however cached resolves of one key interleave, none fails on account of
\* the other's upsert (a resolve whose provider call succeeded has its
\* embedding, and a request ends in an error only after a provider or ranking
\* failure), no id has two rows, and the row of an id holds the embedding of
\* the last upsert that landed for it.
C2_ConcurrentUpsertsLastWriteWins ==
    /\ \A p \in Reqs :
           Cached(p) =>
               /\ (req[p].calls = 1 /\ ~req[p].provErr) =>
                      req[p].embedding =
                          embedContent(embedInput(req[p].kind, req[p].text),
                                       embedDim(req[p].kind))
               /\ (req[p].upsertErr \/ req[p].writes = 1) => Resolved(p)
               /\ req[p].status = 500 => (req[p].provErr \/ req[p].rpcErr)
    /\ \A r1, r2 \in search_cache : r1.id = r2.id => r1 = r2
    /\ \A k \in DOMAIN lastUpsert :
           \E r \in search_cache : r.id = k /\ r.embedding = lastUpsert[k]
    /\ \A r \in search_cache : r.id \in DOMAIN lastUpsert

\* Two resolves of one key, made with different texts, both called the
\* provider and both upserted; one row is left.
C2_Witness ==
    \E p, q \in Reqs :
        /\ p # q
        /\ req[p].hash = req[q].hash
        /\ req[p].text # req[q].text
        /\ req[p].embedding # req[q].embedding
        /\ Finished(p) /\ Finished(q)
        /\ req[p].calls = 1 /\ req[q].calls = 1
        /\ req[p].writes = 1 /\ req[q].writes = 1
        /\ Cardinality(search_cache) = 1

\* C3: a cached resolve that finds under its key an entry whose embedding does
\* not have length D does not return it as a hit: it calls the provider.
C3_MalformedEntryIsRecomputed ==
    \A p \in Reqs :
        (Cached(p) /\ req[p].lookups = 1
            /\ \E v \in req[p].stored : v.dim # D) =>
            /\ ~req[p].hit
            /\ Resolved(p) => (req[p].calls = 1 /\ req[p].embedding.dim = D)

\* C4: when the provider call of a cached resolve succeeded and its upsert is
\* refused, the resolve still returns the computed embedding, the refusal is
\* not the request's error (it ends in 500 only if the ranking call fails),
\* and the request has written nothing to the cache.
C4_FailedUpsertStillReturns ==
    \A p \in Reqs :
        req[p].upsertErr =>
            /\ Resolved(p)
            /\ req[p].calls = 1
            /\ req[p].embedding =
                   embedContent(embedInput(req[p].kind, req[p].text),
                                embedDim(req[p].kind))
            /\ req[p].writes = 0
            /\ req[p].status = 500 => req[p].rpcErr

\* A search whose upsert was refused has ended with 200.
C4_Witness ==
    \E p \in Reqs :
        /\ req[p].kind = "search"
        /\ req[p].upsertErr
        /\ Finished(p) /\ req[p].status = 200
        /\ rowsWithId(search_cache, req[p].hash) = {}

\* C5: ingestion never reads or writes the query cache (search_cache is what
\* the cached resolves alone produced), and every successful ingest has made
\* its own provider call, whatever the cache holds.
C5_IngestLeavesCacheAlone ==
    /\ search_cache = searchOnly
    /\ \A p \in Reqs :
           req[p].kind = "ingest" =>
               /\ req[p].lookups = 0
               /\ req[p].writes = 0
               /\ ~req[p].hit
               /\ req[p].status = 201 => req[p].calls = 1

\* An ingest succeeded, with its own provider call, for a text whose
\* normalized form has an entry in the cache.
C5_Witness ==
    \E p \in Reqs :
        /\ req[p].kind = "ingest"
        /\ req[p].status = 201
        /\ req[p].calls = 1
        /\ rowsWithId(search_cache, addressOf(normalize(req[p].text))) # {}
        /\ Len(prompts) = 1

\* C6: a search whose query text is missing, empty or whitespace only is
\* rejected with 400 before any cache lookup, provider call or cache write.
C6_BlankQueryRejected ==
    \A p \in Reqs :
        (req[p].kind = "search" /\ normalize(req[p].text) = <<>>) =>
            /\ Finished(p) /\ req[p].status = 400
            /\ req[p].lookups = 0
            /\ req[p].calls = 0
            /\ req[p].writes = 0

\* C7: a cached resolve whose lookup returned the entry under its key makes no
\* provider call and writes nothing to the cache.
C7_HitHasNoSideEffect ==
    \A p \in Reqs :
        req[p].hit =>
            /\ req[p].calls = 0
            /\ req[p].writes = 0
            /\ req[p].embedding \in req[p].stored

\* A search made with a text that is not normalized has hit the row another
\* request wrote, and has ended with 200.
C7_Witness ==
    \E p \in Reqs :
        /\ req[p].kind = "search" /\ req[p].hit
        /\ req[p].text # normalize(req[p].text)
        /\ Finished(p) /\ req[p].status = 200
        /\ \E q \in Reqs \ {p} : req[q].writes = 1 /\ req[q].hash = req[p].hash

\* C8: the embedding of a resolve depends only on normalize(text): the
\* provider is given the normalized text, so two resolves of the same
\* operation whose texts have one normalized form compute the same embedding,
\* and the embedding cached under a key is that of the key's normalized text.
C8_EmbeddingDependsOnNormalizedTextOnly ==
    /\ \A p \in Reqs :
           (req[p].calls = 1 /\ ~req[p].provErr) =>
               req[p].embedding.src = normalize(req[p].text)
    /\ \A p, q \in Reqs :
           (/\ req[p].kind = req[q].kind
            /\ normalize(req[p].text) = normalize(req[q].text)
            /\ req[p].calls = 1 /\ ~req[p].provErr
            /\ req[q].calls = 1 /\ ~req[q].provErr) =>
               req[p].embedding = req[q].embedding
    /\ \A r \in search_cache : r.id = addressOf(r.embedding.src)

\* C9: in every state of the cache each row's key is hash(normalize(text)) of
\* the text stored with it, the stored text is normalized, and no key has two
\* rows.
C9_CacheRowsWellFormed ==
    /\ \A r \in search_cache :
           /\ r.id = addressOf(normalize(r.query_text))
           /\ r.query_text = normalize(r.query_text)
    /\ \A r1, r2 \in search_cache : r1.id = r2.id => r1 = r2

\* C10: when the provider call of a request fails, the request ends in an
\* error, the provider was called once for it, and the request has written
\* nothing: no cache row, and no prompt (the prompts are those of the ingests
\* that ended with 201).
C10_ProviderFailurePropagates ==
    /\ \A p \in Reqs :
           req[p].provErr =>
               /\ Finished(p)
               /\ req[p].status = 500
               /\ req[p].calls = 1
               /\ req[p].writes = 0
               /\ req[p].embedding = NoVec
    /\ Len(prompts) =
           Cardinality({p \in Reqs : req[p].kind = "ingest" /\ req[p].status = 201})

\* A search and an ingest have both ended with 500 after their provider call
\* failed, while the cache holds a row.
C10_Witness ==
    \E p, q \in Reqs :
        /\ req[p].kind = "search" /\ req[p].provErr /\ req[p].status = 500
        /\ req[q].kind = "ingest" /\ req[q].provErr /\ req[q].status = 500

\* C11: every search request ends with exactly one outcome: the result list
\* (200), or one error response and no results -- 500 with the cause when the
\* resolve or the ranking call failed, 400 for a falsy q; no response is sent
\* before the request ends and none after.
C11_OneOutcomePerSearch ==
    \A p \in Reqs :
        req[p].kind = "search" =>
            /\ req[p].responses = (IF Finished(p) THEN 1 ELSE 0)
            /\ Finished(p) =>
                   \/ /\ req[p].status = 200 /\ req[p].body = "results"
                      /\ ~req[p].provErr /\ ~req[p].rpcErr
                   \/ /\ req[p].status = 500 /\ req[p].body = "provider"
                      /\ req[p].provErr /\ ~req[p].rpcErr
                   \/ /\ req[p].status = 500 /\ req[p].body = "rpc"
                      /\ req[p].rpcErr /\ ~req[p].provErr
                   \/ /\ req[p].status = 400 /\ req[p].body = "q-required"
                      /\ qIsFalsy(req[p].hasQ, req[p].text)
            /\ ~Finished(p) => (req[p].status = 0 /\ req[p].body = "none")

\* One search has ended with its results and another with the provider's
\* error.
C11_Witness ==
    \E p, q \in Reqs :
        /\ req[p].kind = "search" /\ Finished(p) /\ req[p].body = "results"
        /\ req[q].kind = "search" /\ Finished(q) /\ req[q].body = "provider"
        /\ req[p].responses = 1 /\ req[q].responses = 1

\* C12: every search request ends: a request that has arrived and has not
\* ended always has a step left (the answer it awaits, or else a timeout that
\* fails it), and a request whose call is never answered ends with a timeout
\* outcome, having written at most its one cache row.
C12_SearchNeverWaitsForever ==
    \A p \in Reqs :
        (req[p].kind = "search" /\ ~Finished(p)) =>
            ENABLED Step(p)


----------------------------------------------------------------------------
(* The local ranking (specification SpecRank).                             *)

Ranked == purePc = "ranked"

\* The fetched row a result was computed from.
rowOfResult(x) == CHOOSE r \in { allPrompts[i] : i \in 1..Len(allPrompts) } : r.id = x.id
semOfResult(x) == cosineSimilarity(embedData, rowOfResult(x).embedding)
sumOfResult(x) == rowOfResult(x).votes + rowOfResult(x).quality_score
resultIds == [i \in 1..Len(serverResults) |-> serverResults[i].id]

ScenarioA ==
    /\ allPrompts = withIds(<< [embedding |-> <<1, 0>>, votes |-> 0, quality_score |-> 0],
                               [embedding |-> <<0, 1>>, votes |-> 100, quality_score |-> 100] >>,
                            TRUE)
    /\ embedData = <<1, 0>>

\* C13: the local ranker returns the candidates in descending order of score,
\* candidates of equal score in ascending order of id whatever order the store
\* returned them in, and Scenario A gives the order [1, 2].
C13_SortedByScoreThenId ==
    Ranked =>
        /\ \A i \in 1..(Len(serverResults) - 1) :
               /\ ~fracLess(serverResults[i].rank, serverResults[i + 1].rank)
               /\ fracEq(serverResults[i].rank, serverResults[i + 1].rank)
                      => serverResults[i].id < serverResults[i + 1].id
        /\ ScenarioA => resultIds = <<1, 2>>

CallerAlphas == { <<0, 1>>, <<1, 2>>, <<7, 10>>, <<1, 1>> }

\* alpha * semantic + (1 - alpha) * metadata, metadata being the sum / 200.
claimedScore(alpha, x) ==
    fracAdd(fracMul(alpha, semOfResult(x)),
            fracMul(<<alpha[2] - alpha[1], alpha[2]>>, <<sumOfResult(x), 200>>))

----------------------------------------------------------------------------
(* The alpha weight (specification SpecAlpha).                             *)

Weighted == purePc = "weighted"

\* The number the caller wrote, whatever its range.
callersAlpha == parseFloat(IF alphaQuery.given THEN alphaQuery.text ELSE defaultAlpha)

\* C15: an alpha outside [0,1] is not rejected and the weight handed to the
\* ranking function is clamped into [0,1] (below 0 becomes 0, above 1 becomes
\* 1); an omitted alpha is 0.5.
C15_AlphaClampedIntoUnitInterval ==
    Weighted =>
        /\ ~alphaQuery.given =>
               (~alpha_weight.nan /\ alpha_weight.num * 2 = alpha_weight.den)
        /\ ~callersAlpha.nan =>
               /\ ~alpha_weight.nan
               /\ 0 <= alpha_weight.num /\ alpha_weight.num <= alpha_weight.den
               /\ callersAlpha.num < 0 => alpha_weight.num = 0
               /\ callersAlpha.num > callersAlpha.den
                      => alpha_weight.num = alpha_weight.den
               /\ (0 <= callersAlpha.num /\ callersAlpha.num <= callersAlpha.den)
                      => alpha_weight.num * callersAlpha.den
                             = callersAlpha.num * alpha_weight.den


----------------------------------------------------------------------------
(* Entries held as strings (specification SpecStore).                      *)

\* C17: a cached resolve that finds an entry whose embedding is a string that
\* cannot be parsed as a numeric sequence treats it as a miss: it calls the
\* provider, returns the fresh embedding, and does not fail on the entry.
C17_UnparseableEntryIsAMiss ==
    \A p \in Reqs :
        (Cached(p) /\ Finished(p) /\ \E v \in req[p].stored : v.enc = "text") =>
            /\ req[p].calls = 1
            /\ ~req[p].parseErr
            /\ (~req[p].provErr /\ ~req[p].rpcErr) =>
                   /\ req[p].status = 200
                   /\ req[p].embedding =
                          embedContent(embedInput(req[p].kind, req[p].text),
                                       embedDim(req[p].kind))


----------------------------------------------------------------------------
(* Ingestion and the failing lookup (specification Spec).                  *)

Ingested(p) == req[p].kind = "ingest" /\ Finished(p) /\ req[p].status = 201

\* C18: an ingest whose text is missing or empty after trimming ends at once
\* in the invalid-input error (400), with no provider call and no record
\* inserted.
C18_BlankIngestRejected ==
    \A p \in Reqs :
        (req[p].kind = "ingest" /\ (~req[p].hasQ \/ trim(req[p].text) = <<>>)) =>
            /\ Finished(p)
            /\ req[p].status = 400
            /\ req[p].calls = 0
            /\ req[p].rowId = 0

\* C19: after any sequence of successful ingests, looking a record up by the
\* id the store gave it returns the exact text of its ingest, neither trimmed
\* nor lowercased, and different ingests have different ids.
C19_IngestRoundTrip ==
    /\ \A p \in Reqs :
           Ingested(p) =>
               contentById(prompts, req[p].rowId) =
                   [found |-> TRUE, content |-> req[p].text]
    /\ \A p, q \in Reqs :
           (Ingested(p) /\ Ingested(q) /\ p # q) => req[p].rowId # req[q].rowId

\* C19 witness: two ingests succeeded, one of them of a text that cleaning
\* would change.
C19_Witness ==
    \E p, q \in Reqs :
        /\ p # q /\ Ingested(p) /\ Ingested(q)
        /\ cleanText(req[p].text) # req[p].text
        /\ contentById(prompts, req[p].rowId).content = req[p].text

\* C20: when the cache lookup itself fails, the cached resolve fails with the
\* store's error: the failure is not taken for a miss, so no provider call
\* and no upsert follow.
C20_LookupFailurePropagates ==
    \A p \in Reqs :
        (Cached(p) /\ req[p].lookupErr) =>
            /\ Finished(p)
            /\ req[p].status = 500
            /\ req[p].calls = 0
            /\ req[p].writes = 0


----------------------------------------------------------------------------
(* The re-indexing job (specification SpecReindex).                        *)

ReindexDone == reindexPc = "done"

\* The row of the table with a given id.
promptWithId(id) ==
    prompts[CHOOSE k \in 1..Len(prompts) : prompts[k].id = id]

\* C21: the re-indexing job changes only the embedding of prompt records:
\* whichever calls fail, the table has the same ids and contents as before;
\* the fetched records are attempted once each, in the order fetched, and
\* when the job ends every fetched record was attempted, those that did not
\* fail having the new embedding of their content.
C21_ReindexChangesOnlyEmbeddings ==
    /\ Len(prompts) = Len(promptsBefore)
    /\ \A k \in 1..Len(prompts) :
           /\ prompts[k].id = promptsBefore[k].id
           /\ prompts[k].content = promptsBefore[k].content
           /\ \/ prompts[k].embedding = promptsBefore[k].embedding
              \/ /\ prompts[k].embedding = [src |-> prompts[k].content,
                                            dim |-> 768, enc |-> "array"]
                 /\ \E a \in 1..Len(attempted) : attempted[a] = prompts[k].id
    /\ Len(attempted) <= Len(fetchedPrompts)
    /\ \A a \in 1..Len(attempted) : attempted[a] = fetchedPrompts[a].id
    /\ failedIds \subseteq { attempted[a] : a \in 1..Len(attempted) }
    /\ ReindexDone =>
           /\ Len(attempted) = Len(fetchedPrompts)
           /\ \A a \in 1..Len(attempted) :
                  attempted[a] \notin failedIds =>
                      promptWithId(attempted[a]).embedding =
                          [src |-> promptWithId(attempted[a]).content,
                           dim |-> 768, enc |-> "array"]

\* C21 witness: the job ended; one record's provider call or update failed,
\* and a record fetched after it was given an embedding it did not have.
C21_Witness ==
    /\ ReindexDone
    /\ \E j, k \in 1..Len(fetchedPrompts) :
           /\ j < k
           /\ fetchedPrompts[j].id \in failedIds
           /\ fetchedPrompts[k].id \notin failedIds
           /\ \E n \in 1..Len(prompts) :
                  /\ prompts[n].id = fetchedPrompts[k].id
                  /\ prompts[n].embedding # promptsBefore[n].embedding

====
